---------------------------- MODULE Spec2Model ----------------------------
(***************************************************************************)
(* DMX-to-output orchestration of the StagePlayer media player             *)
(* (src/src/App.tsx): media resolution by 3-digit prefix, the Preview      *)
(* section's channel state, its Test and Listen input paths, the           *)
(* update_output_window effect and the video.js preview player.            *)
(***************************************************************************)
EXTENDS Integers, Sequences, FiniteSets, TLC

VARIABLES
    cfg,      \* AppConfig fields the preview logic reads: preview, enabled, start_channel
    dir,      \* per monitor: the media folder as the OS enumerates it (a sequence of names)
    pv,       \* PreviewSection React state: channel values, files, link, output check boxes
    player,   \* per monitor: the video.js player, its refs and the <video> element
    lst,      \* Listen-mode effect: handler registration and backend sACN listener
    burst,    \* dmx-update events emitted by the backend and not yet handled
    ev,       \* per monitor: the channel values the last step changed
    app,      \* App component: production state, in-flight window command sequences
    rs,       \* resolver bench: one folder, one select value, both resolvers' results
    tw        \* twin bench: one PreviewSection driven in Test mode, one in Listen mode

vars == <<cfg, dir, pv, player, lst, burst, ev, app, rs, tw>>

Mon == {1, 2}
Other(o) == 3 - o
Null == <<"null">>

----------------------------------------------------------------------------
(* Bounds of the model.                                                     *)
MaxFiles == 3      \* files in a folder of the resolver bench
MaxPos == 2        \* length of a video, in playback steps
MaxBatch == 2      \* dmx-update events React may batch into one render

----------------------------------------------------------------------------
(* File names are sequences of one-character strings.                       *)
F001a == <<"0","0","1","_","a",".","m","p","4">>
F001b == <<"0","0","1","_","b",".","p","n","g">>
F001  == <<"0","0","1",".","m","p","4">>
F0010 == <<"0","0","1","0","_","x",".","m","p","4">>
F000  == <<"0","0","0","_","z",".","m","p","4">>
F002  == <<"0","0","2","_","l",".","p","n","g">>
F128  == <<"1","2","8","_","c",".","m","o","v">>
F255  == <<"2","5","5",".","m","p","4">>
Names == {F001a, F001b, F001, F0010, F000, F002, F128, F255}

\* UTF-16 code units of the characters used, the order String.prototype.localeCompare-free
\* comparisons (<, sort()) use.
Code(c) ==
    CASE c = "." -> 46
      [] c = "0" -> 48 [] c = "1" -> 49 [] c = "2" -> 50 [] c = "3" -> 51
      [] c = "4" -> 52 [] c = "5" -> 53 [] c = "6" -> 54 [] c = "7" -> 55
      [] c = "8" -> 56 [] c = "9" -> 57
      [] c = "_" -> 95
      [] c = "a" -> 97 [] c = "b" -> 98 [] c = "c" -> 99 [] c = "e" -> 101
      [] c = "g" -> 103 [] c = "l" -> 108 [] c = "m" -> 109 [] c = "n" -> 110
      [] c = "o" -> 111 [] c = "p" -> 112 [] c = "v" -> 118 [] c = "x" -> 120
      [] c = "z" -> 122
      [] OTHER -> 0

Digit(d) == CASE d = 0 -> "0" [] d = 1 -> "1" [] d = 2 -> "2" [] d = 3 -> "3"
              [] d = 4 -> "4" [] d = 5 -> "5" [] d = 6 -> "6" [] d = 7 -> "7"
              [] d = 8 -> "8" [] d = 9 -> "9"

IsDigit(c) == Code(c) >= 48 /\ Code(c) <= 57

\* Number.prototype.toString() of a non-negative integer
RECURSIVE NumToString(_)
NumToString(n) == IF n < 10 THEN <<Digit(n)>> ELSE Append(NumToString(n \div 10), Digit(n % 10))

\* String.prototype.padStart(len, c)
RECURSIVE PadStart(_, _, _)
PadStart(s, len, c) == IF Len(s) >= len THEN s ELSE PadStart(<<c>> \o s, len, c)

\* String.prototype.startsWith
StartsWith(f, p) == Len(f) >= Len(p) /\ SubSeq(f, 1, Len(p)) = p

\* String.prototype.endsWith, as the $-anchored regular expressions use it
EndsWith(f, s) == Len(f) >= Len(s) /\ SubSeq(f, Len(f) - Len(s) + 1, Len(f)) = s

\* files.find(f => f.startsWith(p)): the first element, in array order, that
\* starts with p
FindPrefix(files, p) ==
    LET hits == {i \in 1..Len(files) : StartsWith(files[i], p)}
    IN  IF hits = {} THEN Null ELSE files[CHOOSE i \in hits : \A j \in hits : i <= j]

\* App.getProdMediaFile
getProdMediaFile(dmxValue, files) ==
    IF dmxValue = 0 THEN Null
    ELSE LET padded == PadStart(NumToString(dmxValue), 3, "0")
         IN  FindPrefix(files, padded \o <<"_">>)

\* getMediaFileForDmx taking the last match of the listing instead of the first
getMediaFileForDmx_last(dmxValue, files) ==
    LET paddedValue == PadStart(NumToString(dmxValue), 3, "0")
        hits == {i \in 1..Len(files) : StartsWith(files[i], paddedValue \o <<"_">>)}
    IN  IF hits = {} THEN Null ELSE files[CHOOSE i \in hits : \A j \in hits : j <= i]

\* PreviewSection.getMediaFileForDmx
getMediaFileForDmx(dmxValue, files) ==
    LET paddedValue == PadStart(NumToString(dmxValue), 3, "0")
    IN  FindPrefix(files, paddedValue \o <<"_">>)

\* a < b as JavaScript compares strings
RECURSIVE LexLess(_, _)
LexLess(a, b) ==
    IF b = <<>> THEN FALSE
    ELSE IF a = <<>> THEN TRUE
    ELSE IF Code(Head(a)) # Code(Head(b)) THEN Code(Head(a)) < Code(Head(b))
    ELSE LexLess(Tail(a), Tail(b))

\* insertion of a name into a sorted listing
RECURSIVE Insert(_, _)
Insert(f, s) ==
    IF s = <<>> THEN <<f>>
    ELSE IF LexLess(f, Head(s)) THEN <<f>> \o s
    ELSE <<Head(s)>> \o Insert(f, Tail(s))

\* backend command get_media_files: the folder's files, sorted ascending by name
RECURSIVE get_media_files(_)
get_media_files(d) ==
    IF d = <<>> THEN <<>> ELSE Insert(Head(d), get_media_files(Tail(d)))

----------------------------------------------------------------------------
(* Resolver bench: a folder in some enumeration order, listed by            *)
(* get_media_files, then resolved by both resolvers for one select value.   *)
SelBench == {0, 1, 2, 10, 128, 255}

Enumerations ==
    {s \in UNION {[1..n -> Names] : n \in 0..MaxFiles} :
        \A i, j \in DOMAIN s : i # j => s[i] # s[j]}

RsIdle == [dir |-> <<>>, sel |-> 0, files |-> <<>>, prod |-> Null, prev |-> Null,
           pc |-> "idle"]

RsInit ==
    rs \in {[dir |-> d, sel |-> v, files |-> <<>>, prod |-> Null, prev |-> Null,
             pc |-> "list"] : d \in Enumerations, v \in SelBench}

\* invoke('get_media_files', { folder }).then(files => setFiles(files))
RsList ==
    /\ rs.pc = "list"
    /\ rs' = [rs EXCEPT !.files = get_media_files(rs.dir), !.pc = "resolve"]

\* getProdMediaFile(select, files) and getMediaFileForDmx(select, files)
RsResolve ==
    /\ rs.pc = "resolve"
    /\ rs' = [rs EXCEPT !.prod = getProdMediaFile(rs.sel, rs.files),
                         !.prev = getMediaFileForDmx(rs.sel, rs.files),
                         !.pc = "done"]

----------------------------------------------------------------------------
(* Configuration and PreviewSection state.                                  *)
LoopBelow == 128     \* 'ended' handler: mode < 128 loops
FullScale == 255     \* opacity: dimmer / 255; initial dimmer; largest channel value

VideoVals  == {0, 1, 2, 128}
DimmerVals == {128, 255}
ModeVals   == {0, 127, 128}
Signals    == {"video", "dimmer", "mode"}

\* config.monitorN.media_folder
Folder(o) == IF o = 1 THEN "media1" ELSE "media2"

\* the folder both monitors play from, as the OS enumerates it
MainDir == <<F128, F002, F001a, F000>>

\* useState initial values of PreviewSection, after the mount effects have run
Baseline == [video |-> 0, dimmer |-> FullScale, mode |-> 0]

PvInit ==
    [video   |-> [o \in Mon |-> Baseline.video],
     dimmer  |-> [o \in Mon |-> Baseline.dimmer],
     mode    |-> [o \in Mon |-> Baseline.mode],
     linked  |-> FALSE,
     files   |-> [o \in Mon |-> <<>>],
     loading |-> [o \in Mon |-> TRUE],
     out     |-> [o \in Mon |-> FALSE]]

Triple(P, o) == [video |-> P.video[o], dimmer |-> P.dimmer[o], mode |-> P.mode[o]]

\* parseInt(value): optional sign, then the leading digits; NaN when there are none
RECURSIVE DigitsValue(_, _)
DigitsValue(s, acc) ==
    IF s = <<>> \/ ~IsDigit(Head(s)) THEN acc
    ELSE DigitsValue(Tail(s), 10 * acc + (Code(Head(s)) - 48))

parseInt(s) ==
    LET signed == s # <<>> /\ Head(s) \in {"-", "+"}
        body   == IF signed THEN Tail(s) ELSE s
    IN  IF body = <<>> \/ ~IsDigit(Head(body)) THEN [nan |-> TRUE, val |-> 0]
        ELSE [nan |-> FALSE,
              val |-> IF signed /\ Head(s) = "-" THEN 0 - DigitsValue(body, 0)
                      ELSE DigitsValue(body, 0)]

\* setM1Video / setM2Video: the video setter copies to the other monitor when linked
setMVideo(P, o, v) ==
    [P EXCEPT !.video = [q \in Mon |-> IF q = o \/ P.linked THEN v ELSE @[q]]]

\* the setter a Test-mode control of monitor o is wired to
Setter(P, o, sig, v) ==
    CASE sig = "video"  -> setMVideo(P, o, v)
      [] sig = "dimmer" -> [P EXCEPT !.dimmer[o] = v]
      [] sig = "mode"   -> [P EXCEPT !.mode[o] = v]

\* PreviewSection.handleValueChange
handleValueChange(P, o, sig, value) ==
    LET num == parseInt(value)
    IN  IF ~num.nan /\ num.val >= 0 /\ num.val <= FullScale
        THEN Setter(P, o, sig, num.val) ELSE P

\* the Listen-mode dmx-update handler with dimmer and mode channels exchanged
DmxHandler_swapped(P, c, u) ==
    [P EXCEPT
       !.video  = [o \in Mon |-> IF c.enabled[o] /\ u.channel = c.start[o]
                                 THEN u.value ELSE @[o]],
       !.dimmer = [o \in Mon |-> IF c.enabled[o] /\ u.channel = c.start[o] + 2
                                 THEN u.value ELSE @[o]],
       !.mode   = [o \in Mon |-> IF c.enabled[o] /\ u.channel = c.start[o] + 1
                                 THEN u.value ELSE @[o]]]

\* the Listen-mode dmx-update handler without the enabled checks
DmxHandler_anyOutput(P, c, u) ==
    [P EXCEPT
       !.video  = [o \in Mon |-> IF u.channel = c.start[o] THEN u.value ELSE @[o]],
       !.dimmer = [o \in Mon |-> IF u.channel = c.start[o] + 1 THEN u.value ELSE @[o]],
       !.mode   = [o \in Mon |-> IF u.channel = c.start[o] + 2 THEN u.value ELSE @[o]]]

\* the Listen-mode dmx-update handler: c is the config its closure captured
DmxHandler(P, c, u) ==
    [P EXCEPT
       !.video  = [o \in Mon |-> IF c.enabled[o] /\ u.channel = c.start[o]
                                 THEN u.value ELSE @[o]],
       !.dimmer = [o \in Mon |-> IF c.enabled[o] /\ u.channel = c.start[o] + 1
                                 THEN u.value ELSE @[o]],
       !.mode   = [o \in Mon |-> IF c.enabled[o] /\ u.channel = c.start[o] + 2
                                 THEN u.value ELSE @[o]]]

\* the handler run for each event of a batch, in arrival order, before React renders
RECURSIVE ApplyEvents(_, _, _)
ApplyEvents(P, c, evs) ==
    IF evs = <<>> THEN P ELSE ApplyEvents(DmxHandler(P, c, Head(evs)), c, Tail(evs))

----------------------------------------------------------------------------
(* Render: derived values and effects.                                      *)

\* const monitor1File = getMediaFileForDmx(monitor1Video, monitor1Files)
MonitorFile(P, o) == getMediaFileForDmx(P.video[o], P.files[o])

\* convertFileSrc(`${folder}/${file}`)
convertFileSrc(folder, file) == <<"asset://localhost/", folder, "/">> \o file

\* arguments of invoke('update_output_window', ...)
UpdateArgs(P, o) ==
    LET f == MonitorFile(P, o)
    IN  [mediaUrl |-> IF f # Null /\ P.video[o] > 0 THEN convertFileSrc(Folder(o), f)
                      ELSE Null,
         dimmer   |-> P.dimmer[o],
         playtype |-> P.mode[o]]

\* dependency list of the update effect (folder and orientation do not change here)
UpdateDeps(P, c, o) ==
    <<MonitorFile(P, o), P.video[o], P.dimmer[o], P.mode[o], P.out[o], c.preview,
      c.enabled[o]>>

\* the update effect re-runs and passes its guard
UpdateFires(P0, c0, P1, c1, o) ==
    /\ UpdateDeps(P0, c0, o) # UpdateDeps(P1, c1, o)
    /\ P1.out[o] /\ c1.preview \in {"Test", "Listen"} /\ c1.enabled[o]

\* style.opacity of the preview <video> and image container, as a fraction
Opacity(P, o) == <<P.dimmer[o], FullScale>>

VideoExt == {<<"m","p","4">>, <<"m","o","v">>, <<"a","v","i">>, <<"m","k","v">>}

\* monitor1File && monitor1File.match(/\.(mp4|mov|avi|mkv)$/i)
isVideo(f) == f # Null /\ \E e \in VideoExt : EndsWith(f, <<".">> \o e)

NoSrc == <<>>

\* one monitor's preview player before the first video: no video.js player yet
\* (init), the mode the 'ended' closure holds, monitorNCurrentSrcRef (cur), the
\* playback position and whether the element is paused
PlayerInit ==
    [init |-> FALSE, endMode |-> 0, cur |-> NoSrc, pos |-> 0, paused |-> TRUE]

\* dependency list of the video player effect, with the mode added to it
VideoDeps_mode(P, o) == <<MonitorFile(P, o), P.video[o], P.mode[o]>>

\* dependency list of the video player effect, with the dimmer added to it
VideoDeps_dimmer(P, o) == <<MonitorFile(P, o), P.video[o], P.dimmer[o]>>

\* dependency list of the video player effect
VideoDeps(P, o) == <<MonitorFile(P, o), P.video[o]>>

\* body of the video player effect for monitor o, rendered with state P
VideoEffect(pl, P, c, o) ==
    LET f        == MonitorFile(P, o)
        videoSrc == convertFileSrc(Folder(o), f)
        made     == IF pl.init THEN pl
                    ELSE [pl EXCEPT !.init = TRUE, !.endMode = P.mode[o]]
        loaded   == IF made.cur # videoSrc
                    THEN [made EXCEPT !.cur = videoSrc, !.pos = 0, !.paused = FALSE]
                    ELSE IF made.paused
                         THEN [made EXCEPT !.paused = FALSE,
                                           !.pos = IF @ = MaxPos THEN 0 ELSE @]
                         ELSE made
    IN  IF isVideo(f) /\ c.enabled[o] THEN loaded
        ELSE IF ~isVideo(f)
             THEN [pl EXCEPT !.cur = NoSrc, !.paused = IF pl.init THEN TRUE ELSE @]
             ELSE pl

EvNone == [o \in Mon |-> {}]

\* React commits a render with config c1 and state P1 and runs the effects whose
\* dependencies changed; the update_output_window effect issues its call in this step
\* exactly when UpdateFires holds of the step, with the arguments UpdateArgs(P1, o)
Commit(c1, P1) ==
    /\ cfg' = c1
    /\ pv' = P1
    /\ ev' = [o \in Mon |-> {sig \in Signals : Triple(P1, o)[sig] # Triple(pv, o)[sig]}]
    /\ player' = [o \in Mon |-> IF VideoDeps(pv, o) # VideoDeps(P1, o)
                                THEN VideoEffect(player[o], P1, c1, o)
                                ELSE player[o]]

----------------------------------------------------------------------------
(* App component: production state, its effects and the asynchronous        *)
(* sequences of window commands.                                            *)
CloseValue == 255    \* production: select 255 closes the monitor's output window

\* useState initial values of App, the media listings being loaded; procs holds the
\* async functions suspended at an await, win the last open/close command issued for
\* each output window (and "failed" when that open was answered with an error)
AppIdle ==
    [active  |-> FALSE,
     reset   |-> FALSE,
     video   |-> [o \in Mon |-> Baseline.video],
     dimmer  |-> [o \in Mon |-> Baseline.dimmer],
     mode    |-> [o \in Mon |-> Baseline.mode],
     files   |-> [o \in Mon |-> <<>>],
     loading |-> [o \in Mon |-> TRUE],
     handler |-> FALSE,
     pending |-> FALSE,
     leaked  |-> FALSE,
     procs   |-> <<>>,
     win     |-> [o \in Mon |-> "none"]]

\* the production dmx-update handler: c is the config its closure captured
ProdHandler(A, c, u) ==
    [A EXCEPT
       !.video  = [o \in Mon |-> IF c.enabled[o] /\ u.channel = c.start[o]
                                 THEN u.value ELSE @[o]],
       !.dimmer = [o \in Mon |-> IF c.enabled[o] /\ u.channel = c.start[o] + 1
                                 THEN u.value ELSE @[o]],
       !.mode   = [o \in Mon |-> IF c.enabled[o] /\ u.channel = c.start[o] + 2
                                 THEN u.value ELSE @[o]]]

RECURSIVE ProdApplyEvents(_, _, _)
ProdApplyEvents(A, c, evs) ==
    IF evs = <<>> THEN A ELSE ProdApplyEvents(ProdHandler(A, c, Head(evs)), c, Tail(evs))

\* arguments of the production invoke('update_output_window', ...)
ProdArgs(A, o) ==
    LET file == getProdMediaFile(A.video[o], A.files[o])
    IN  [mediaUrl |-> IF file # Null THEN convertFileSrc(Folder(o), file) ELSE Null,
         dimmer   |-> A.dimmer[o],
         playtype |-> A.mode[o]]

\* dependency list of the production update effect
ProdUpdateDeps(A, o) == <<A.video[o], A.dimmer[o], A.mode[o], A.active>>

\* the production update effect re-runs and passes its guards, whatever the select
ProdUpdateFires_any(A0, A1, c, o) ==
    /\ ProdUpdateDeps(A0, o) # ProdUpdateDeps(A1, o)
    /\ A1.active /\ c.enabled[o]

\* the production update effect without its productionActive guard
ProdUpdateFires_stopped(A0, A1, c, o) ==
    /\ ProdUpdateDeps(A0, o) # ProdUpdateDeps(A1, o)
    /\ c.enabled[o]
    /\ A1.video[o] # CloseValue

\* the production update effect re-runs and passes its guards
ProdUpdateFires(A0, A1, c, o) ==
    /\ ProdUpdateDeps(A0, o) # ProdUpdateDeps(A1, o)
    /\ A1.active /\ c.enabled[o]
    /\ A1.video[o] # CloseValue

\* the production close effect closing the window for select 0 as well
ProdCloseFires_zero(A0, A1, o) ==
    /\ <<A0.video[o], A0.active>> # <<A1.video[o], A1.active>>
    /\ A1.active
    /\ A1.video[o] \in {CloseValue, 0}

\* the production close effect re-runs and invokes close_output_window
ProdCloseFires(A0, A1, o) ==
    /\ <<A0.video[o], A0.active>> # <<A1.video[o], A1.active>>
    /\ A1.active
    /\ A1.video[o] = CloseValue

\* React commits a render of App with state A1 and runs the production effects whose
\* dependencies changed: update_output_window is invoked in this step exactly when
\* ProdUpdateFires holds of it, close_output_window when ProdCloseFires does
AppRender(A1) ==
    app' = [A1 EXCEPT !.win = [o \in Mon |-> IF ProdCloseFires(app, A1, o)
                                             THEN "closed" ELSE @[o]]]

----------------------------------------------------------------------------
(* The DMX source and the Listen-mode listener.                             *)
NoCall == [mediaUrl |-> Null, dimmer |-> 0 - 1, playtype |-> 0 - 1]

\* no dmx-update event in flight
BurstIdle == <<>>

LstOff == [handler |-> FALSE, pending |-> FALSE, sacn |-> FALSE]

\* getClipChannel / getDimmerChannel / getPlaytypeChannel, relative to start_channel
Offset(sig) == CASE sig = "video" -> 0 [] sig = "dimmer" -> 1 [] sig = "mode" -> 2

\* channels a console frame may start at: both monitors' groups and an unmapped one
BurstChans == {cfg.start[o] : o \in Mon} \cup {7}

\* the (select, dimmer, mode) values a console frame may carry
Frames ==
    {[video |-> 1, dimmer |-> 128, mode |-> 128],
     [video |-> 128, dimmer |-> 128, mode |-> 127],
     [video |-> 2, dimmer |-> 255, mode |-> 0],
     [video |-> 0, dimmer |-> 255, mode |-> 127]}

\* the console (or send_test_three_channels) sets three consecutive channels at once;
\* the backend emits one dmx-update event per channel
SourceChange(ch, fr) ==
    /\ lst.sacn
    /\ burst = <<>>
    /\ burst' = <<[channel |-> ch, value |-> fr.video],
                  [channel |-> ch + 1, value |-> fr.dimmer],
                  [channel |-> ch + 2, value |-> fr.mode]>>
    /\ UNCHANGED <<cfg, dir, pv, player, lst, ev, rs, tw, app>>

\* the next k events reach the webview before React renders: every registered
\* handler runs for each of them, then one render commits
Deliver(k) ==
    /\ k >= 1 /\ k <= Len(burst)
    /\ ~app.reset
    /\ Commit(cfg, IF lst.handler
                   THEN ApplyEvents(pv, cfg, SubSeq(burst, 1, k)) ELSE pv)
    /\ AppRender(IF app.handler \/ app.leaked
                 THEN ProdApplyEvents(app, cfg, SubSeq(burst, 1, k)) ELSE app)
    /\ burst' = SubSeq(burst, k + 1, Len(burst))
    /\ UNCHANGED <<dir, lst, rs, tw>>

\* listen('dmx-update', ...) resolves: the handler is registered and the effect
\* holds its unlisten function
ListenRegistered ==
    /\ lst.pending
    /\ lst' = [lst EXCEPT !.pending = FALSE, !.handler = TRUE]
    /\ UNCHANGED <<cfg, dir, pv, player, burst, ev, rs, tw, app>>

\* the Listen / Test buttons, pressed while no listener registration is in progress:
\* saveConfig({...config, preview: m}); the Listen-mode effect is cleaned up (handler
\* removed, stop_sacn_listener) or set up (start_sacn_listener succeeds or fails)
SetPreviewMode(m, started) ==
    /\ m # cfg.preview
    /\ ~lst.pending
    /\ Commit([cfg EXCEPT !.preview = m], pv)
    /\ lst' = IF m = "Listen"
              THEN [handler |-> FALSE, pending |-> started, sacn |-> started]
              ELSE LstOff
    /\ UNCHANGED <<dir, burst, rs, tw, app>>

----------------------------------------------------------------------------
(* Operator actions of the Preview section.                                 *)

\* text a number input can deliver: the values of the model, and text that
\* handleValueChange has to reject or truncate
TestStrings ==
    {NumToString(v) : v \in VideoVals \cup DimmerVals \cup ModeVals}
    \cup {<<>>, <<"2","5","6">>, <<"-","1">>, <<"1","2","8",".","5">>}

SignalVals(sig) ==
    CASE sig = "video" -> VideoVals [] sig = "dimmer" -> DimmerVals [] sig = "mode" -> ModeVals

\* typing into a Test-mode number input of monitor o
TestInput(o, sig, value) ==
    /\ cfg.preview = "Test" /\ cfg.enabled[o]
    /\ LET num == parseInt(value)
       IN  num.nan \/ num.val \notin 0..FullScale \/ num.val \in SignalVals(sig)
    /\ Commit(cfg, handleValueChange(pv, o, sig, value))
    /\ UNCHANGED <<dir, lst, burst, rs, tw, app>>

\* dragging a Test-mode slider of monitor o
TestSlider(o, sig, v) ==
    /\ cfg.preview = "Test" /\ cfg.enabled[o]
    /\ Commit(cfg, Setter(pv, o, sig, v))
    /\ UNCHANGED <<dir, lst, burst, rs, tw, app>>

\* the Link check box
ToggleLink ==
    /\ Commit(cfg, [pv EXCEPT !.linked = ~@])
    /\ UNCHANGED <<dir, lst, burst, rs, tw, app>>

\* the Output to Display check box of monitor o
SetOutput(o, b) ==
    /\ cfg.enabled[o]
    /\ b # pv.out[o]
    /\ Commit(cfg, [pv EXCEPT !.out[o] = b])
    /\ UNCHANGED <<dir, lst, burst, rs, tw, app>>

\* the values the sACN test panel of the Listen view is set to
PanelFrames ==
    {[video |-> 1, dimmer |-> 255, mode |-> 128],
     [video |-> 2, dimmer |-> 128, mode |-> 0]}

\* three dmx-update events of a frame sent at start channel ch
FrameEvents(ch, fr) ==
    <<[channel |-> ch, value |-> fr.video],
      [channel |-> ch + 1, value |-> fr.dimmer],
      [channel |-> ch + 2, value |-> fr.mode]>>

\* backend command send_test_three_channels taking whatever numbers it is given
send_test_three_channels_any(fr) == TRUE

\* backend command send_test_three_channels: it takes clip, dimmer and play type
\* values of 0-255 and answers any other with an error
send_test_three_channels(fr) ==
    /\ fr.video \in 0..FullScale
    /\ fr.dimmer \in 0..FullScale
    /\ fr.mode \in 0..FullScale

\* "Send" of the test panel shown in Listen mode, its test sender created:
\* send_test_three_channels for monitor 1 and then for monitor 2 (what is sent is
\* received by the running listener like any other sACN data), then onValuesChange
\* sets the six preview values directly, whatever the enabled flags are; an error
\* of either command ends the function in its catch
PanelSend(f1, f2) ==
    /\ cfg.preview = "Listen"
    /\ burst = <<>>
    /\ ~app.reset
    /\ send_test_three_channels(f1)
    /\ Commit(cfg, IF send_test_three_channels(f2)
                   THEN [pv EXCEPT
                           !.video  = [o \in Mon |-> IF o = 1 THEN f1.video ELSE f2.video],
                           !.dimmer = [o \in Mon |-> IF o = 1 THEN f1.dimmer ELSE f2.dimmer],
                           !.mode   = [o \in Mon |-> IF o = 1 THEN f1.mode ELSE f2.mode]]
                   ELSE pv)
    /\ burst' = IF lst.sacn
                THEN FrameEvents(cfg.start[1], f1)
                     \o (IF send_test_three_channels(f2)
                         THEN FrameEvents(cfg.start[2], f2) ELSE <<>>)
                ELSE <<>>
    /\ UNCHANGED <<dir, lst, rs, tw, app>>

\* text typed into a Clip number input of the test panel
PanelTexts == {<<>>, <<"2">>, <<"3","0","0">>, <<"-","1">>}

\* the Clip input's onChange: parseInt(e.target.value) || 0
PanelClip(text) ==
    LET num == parseInt(text) IN IF num.nan THEN 0 ELSE num.val

\* the panel's values for one monitor after text was typed into its Clip input,
\* dimmer and play type at their initial values
PanelTyped(text) == [video |-> PanelClip(text), dimmer |-> FullScale, mode |-> 1]

\* loadMediaFiles resolves with the listing of the monitor's folder
FilesLoaded(o) ==
    /\ pv.loading[o]
    /\ Commit(cfg, [pv EXCEPT !.files[o] = get_media_files(dir[o]),
                              !.loading[o] = FALSE])
    /\ UNCHANGED <<dir, lst, burst, rs, tw, app>>

----------------------------------------------------------------------------
(* Playback of the preview player.                                          *)

\* the playing video advances one step without reaching its end
Tick(o) ==
    /\ player[o].init /\ ~player[o].paused
    /\ player[o].pos < MaxPos - 1
    /\ player' = [player EXCEPT ![o].pos = @ + 1]
    /\ ev' = EvNone
    /\ UNCHANGED <<cfg, dir, pv, lst, burst, rs, tw, app>>

\* the playing video reaches its end and the 'ended' handler registered at player
\* initialisation runs with the mode its closure holds
VideoEnded(o) ==
    /\ player[o].init /\ ~player[o].paused
    /\ player[o].pos = MaxPos - 1
    /\ player' = [player EXCEPT ![o] =
                    IF @.endMode < LoopBelow
                    THEN [@ EXCEPT !.pos = 0, !.paused = FALSE]
                    ELSE [@ EXCEPT !.pos = MaxPos, !.paused = TRUE]]
    /\ ev' = EvNone
    /\ UNCHANGED <<cfg, dir, pv, lst, burst, rs, tw, app>>

----------------------------------------------------------------------------
(* Production: Start / Stop Production, the production listener effect and  *)
(* the media listings of App.                                               *)
MaxProcs == 2      \* async functions of App suspended at an await at one time

\* window commands: <<kind, output>>; setProductionActive(true) ends startProduction
Activate == <<"activate", 0>>
StopSacn == <<"stop_sacn", 0>>

\* the calls startProduction(c) makes, in order
StartCmds(c) ==
    (IF c.enabled[1] THEN << <<"close", 1>>, <<"open", 1>> >> ELSE <<>>)
    \o (IF c.enabled[2] THEN << <<"close", 2>>, <<"open", 2>> >> ELSE <<>>)
    \o <<Activate>>

\* startProduction giving up when opening a window fails
RunFrom_abort(A, src, cmds, ok, started) ==
    IF ~ok THEN A
    ELSE IF cmds = <<>> THEN A
    ELSE IF Head(cmds) = Activate
    THEN IF A.active THEN A
         ELSE [A EXCEPT !.active = TRUE, !.reset = TRUE, !.handler = FALSE,
                        !.pending = started, !.leaked = @ \/ A.pending]
    ELSE [A EXCEPT
            !.win   = [o \in Mon |-> IF Head(cmds)[2] = o
                                     THEN (IF Head(cmds)[1] = "close" THEN "closed"
                                           ELSE "open")
                                     ELSE @[o]],
            !.procs = Append(@, [src |-> src, wait |-> Head(cmds), todo |-> Tail(cmds)])]

\* an async function of App runs from its start, or from the await that was answered
\* (ok: without error), to its next await or its end: it invokes the next command,
\* or calls setProductionActive(true), whose render runs the production listener
\* effect (values reset, start_sacn_listener answered with started, listen pending)
RunFrom(A, src, cmds, ok, started) ==
    IF cmds = <<>> THEN A
    ELSE IF Head(cmds) = Activate
    THEN IF A.active THEN A
         ELSE [A EXCEPT !.active = TRUE, !.reset = TRUE, !.handler = FALSE,
                        !.pending = started, !.leaked = @ \/ A.pending]
    ELSE [A EXCEPT
            !.win   = [o \in Mon |-> IF Head(cmds)[2] = o
                                     THEN (IF Head(cmds)[1] = "close" THEN "closed"
                                           ELSE "open")
                                     ELSE @[o]],
            !.procs = Append(@, [src |-> src, wait |-> Head(cmds), todo |-> Tail(cmds)])]

\* s without its i-th element
Without(s, i) == SubSeq(s, 1, i - 1) \o SubSeq(s, i + 1, Len(s))

\* the Start Production button (shown while productionActive is false)
StartProduction(started) ==
    /\ ~app.active /\ ~app.reset
    /\ Len(app.procs) < MaxProcs
    /\ started \/ Head(StartCmds(cfg)) = Activate
    /\ AppRender(RunFrom(app, "start", StartCmds(cfg), TRUE, started))
    /\ lst' = IF Head(StartCmds(cfg)) = Activate
              THEN [lst EXCEPT !.sacn = @ \/ started] ELSE lst
    /\ ev' = EvNone
    /\ UNCHANGED <<cfg, dir, pv, player, burst, rs, tw>>

\* the command the i-th suspended function awaits is answered, with or without error
ProcStep(i, ok, started) ==
    /\ i \in DOMAIN app.procs
    /\ LET p        == app.procs[i]
           activate == p.todo # <<>> /\ Head(p.todo) = Activate /\ ~app.active
           A0       == [app EXCEPT
                          !.procs = Without(@, i),
                          !.win   = [o \in Mon |->
                                       IF p.wait = <<"open", o>> /\ ~ok /\ @[o] = "open"
                                       THEN "failed" ELSE @[o]]]
       IN  /\ ok \/ p.wait[1] = "open"
           /\ started \/ activate
           /\ AppRender(RunFrom(A0, p.src, p.todo, ok, started))
           /\ lst' = IF activate THEN [lst EXCEPT !.sacn = @ \/ started] ELSE lst
    /\ ev' = EvNone
    /\ UNCHANGED <<cfg, dir, pv, player, burst, rs, tw>>

\* the render after the production listener effect called its six setters
ProdReset ==
    /\ app.reset
    /\ AppRender([app EXCEPT !.reset  = FALSE,
                             !.video  = [o \in Mon |-> Baseline.video],
                             !.dimmer = [o \in Mon |-> Baseline.dimmer],
                             !.mode   = [o \in Mon |-> Baseline.mode]])
    /\ ev' = EvNone
    /\ UNCHANGED <<cfg, dir, pv, player, lst, burst, rs, tw>>

\* listen('dmx-update', ...) of the production listener effect resolves; after the
\* effect's cleanup has run, nothing removes the handler any more
ProdListenRegistered ==
    /\ app.pending /\ ~app.reset
    /\ app' = IF app.active
              THEN [app EXCEPT !.pending = FALSE, !.handler = TRUE]
              ELSE [app EXCEPT !.pending = FALSE, !.leaked = TRUE]
    /\ ev' = EvNone
    /\ UNCHANGED <<cfg, dir, pv, player, lst, burst, rs, tw>>

\* the Stop Production button, or Escape while production is active:
\* setProductionActive(false), whose render cleans the listener effect up, then
\* stop_sacn_listener and the two close_output_window calls, each awaited
StopProduction ==
    /\ app.active /\ ~app.reset
    /\ Len(app.procs) < MaxProcs
    /\ AppRender([app EXCEPT
                    !.active  = FALSE,
                    !.handler = FALSE,
                    !.procs   = Append(@, [src |-> "stop", wait |-> StopSacn,
                                           todo |-> << <<"close", 1>>, <<"close", 2>> >>])])
    /\ lst' = [lst EXCEPT !.sacn = FALSE]
    /\ ev' = EvNone
    /\ UNCHANGED <<cfg, dir, pv, player, burst, rs, tw>>

\* get_media_files of the production listing effect resolves
ProdFilesLoaded(o) ==
    /\ app.loading[o] /\ ~app.reset
    /\ AppRender([app EXCEPT !.files[o] = get_media_files(dir[o]),
                             !.loading[o] = FALSE])
    /\ ev' = EvNone
    /\ UNCHANGED <<cfg, dir, pv, player, lst, burst, rs, tw>>

\* get_media_files of the production listing effect fails: .catch(() => {}) leaves
\* the list of the monitor as it is
ProdFilesFailed(o) ==
    /\ app.loading[o] /\ ~app.reset
    /\ AppRender([app EXCEPT !.loading[o] = FALSE])
    /\ ev' = EvNone
    /\ UNCHANGED <<cfg, dir, pv, player, lst, burst, rs, tw>>

\* loadMediaFiles of the Preview section fails: setter([])
FilesFailed(o) ==
    /\ pv.loading[o]
    /\ Commit(cfg, [pv EXCEPT !.files[o] = <<>>, !.loading[o] = FALSE])
    /\ UNCHANGED <<dir, lst, burst, rs, tw, app>>

\* another folder an output may be pointed at
OtherDir == <<F255, F001b>>

\* the Configuration section saves another media folder for monitor o, one with
\* the files d: the listing effect of App re-runs and lists both folders; the
\* Preview section, shown again afterwards, mounts anew and lists them too
FolderChange(o, d) ==
    /\ d # dir[o]
    /\ ~app.reset
    /\ dir' = [dir EXCEPT ![o] = d]
    /\ AppRender([app EXCEPT !.loading = [q \in Mon |-> TRUE]])
    /\ pv' = PvInit
    /\ player' = [q \in Mon |-> PlayerInit]
    /\ ev' = EvNone
    /\ UNCHANGED <<cfg, lst, burst, rs, tw>>

\* channels of a DMX universe
UniverseSize == 512

\* text the Start Channel number input can deliver
StartTexts ==
    {<<>>, <<"0">>, <<"1">>, <<"4">>, <<"5","1","0">>, <<"5","1","1">>, <<"5","1","2">>,
     <<"6","0","0">>, <<"-","1">>}

\* typing into the Start Channel input of monitor o in the Configuration section:
\* saveConfig({...config, monitorN: {..., start_channel: parseInt(text)}}), the
\* config being set when update_config succeeds (ok); for text without a number
\* (NaN) only the refusal of update_config is followed
SetStartChannel(o, text, ok) ==
    /\ LET num == parseInt(text)
       IN  /\ ok => ~num.nan
           /\ cfg' = IF ok THEN [cfg EXCEPT !.start[o] = num.val] ELSE cfg
    /\ UNCHANGED <<dir, pv, player, lst, burst, ev, rs, tw, app>>

\* the window commands the output window effect of the Preview section makes for
\* monitor o, in order, when Output to Display is b
OutputCmds(o, b) ==
    IF b THEN << <<"close", o>>, <<"open", o>> >> ELSE << <<"close", o>> >>

\* the Output to Display check box of monitor o together with the output window
\* effect it re-runs: handleOutputWindow runs to its first await, and the update
\* effect runs in the same render
ToggleOutput(o, b) ==
    /\ cfg.enabled[o]
    /\ b # pv.out[o]
    /\ Len(app.procs) < MaxProcs
    /\ Commit(cfg, [pv EXCEPT !.out[o] = b])
    /\ AppRender(RunFrom(app, "preview", OutputCmds(o, b), TRUE, FALSE))
    /\ UNCHANGED <<dir, lst, burst, rs, tw>>

----------------------------------------------------------------------------
(* Twin bench: two PreviewSections with the same configuration and folders, *)
(* one in Test mode and one in Listen mode, driven with the same values for *)
(* one output.                                                              *)
PvReady(linked) ==
    [PvInit EXCEPT !.linked  = linked,
                   !.files   = [o \in Mon |-> get_media_files(MainDir)],
                   !.loading = [o \in Mon |-> FALSE],
                   !.out     = [o \in Mon |-> TRUE]]

TwIdle ==
    [on |-> FALSE, drv |-> 1, test |-> PvInit, listen |-> PvInit,
     tc |-> [o \in Mon |-> NoCall], lc |-> [o \in Mon |-> NoCall]]

TwCfg(mode) == [cfg EXCEPT !.preview = mode]

\* both sections after the values T1 (Test) and L1 (Listen) are rendered
TwCommit(T1, L1) ==
    /\ tw' = [tw EXCEPT
         !.test   = T1,
         !.listen = L1,
         !.tc = [o \in Mon |->
                   IF UpdateFires(tw.test, TwCfg("Test"), T1, TwCfg("Test"), o)
                   THEN UpdateArgs(T1, o) ELSE @[o]],
         !.lc = [o \in Mon |->
                   IF UpdateFires(tw.listen, TwCfg("Listen"), L1, TwCfg("Listen"), o)
                   THEN UpdateArgs(L1, o) ELSE @[o]]]
    /\ UNCHANGED <<cfg, dir, pv, player, lst, burst, ev, rs, app>>

TwEvent(sig, v) == [channel |-> cfg.start[tw.drv] + Offset(sig), value |-> v]

\* value v for signal sig of the driven output: typed into the Test-mode input,
\* and received as a dmx-update on the output's channel in Listen mode
TwInput(sig, v) ==
    /\ tw.on
    /\ TwCommit(handleValueChange(tw.test, tw.drv, sig, NumToString(v)),
                DmxHandler(tw.listen, TwCfg("Listen"), TwEvent(sig, v)))

\* the same with the Test-mode slider
TwSlider(sig, v) ==
    /\ tw.on
    /\ TwCommit(Setter(tw.test, tw.drv, sig, v),
                DmxHandler(tw.listen, TwCfg("Listen"), TwEvent(sig, v)))

----------------------------------------------------------------------------
(* Specifications.                                                          *)
Starts == {[o \in Mon |-> IF o = 1 THEN 1 ELSE 4]}

\* monitor 1 enabled, monitor 2 configured and disabled
Configs ==
    {[preview |-> p, enabled |-> [o \in Mon |-> o = 1], start |-> s] :
        p \in {"Test", "Listen"}, s \in Starts}

\* PreviewSection mounted: useState initial values, the folder of monitor 1 being
\* listed, the (empty) folder of monitor 2 listed already, and in Listen mode the
\* listener being set up (or start_sacn_listener having failed)
Init ==
    /\ cfg \in Configs
    /\ dir = [o \in Mon |-> IF o = 1 THEN MainDir ELSE <<>>]
    /\ pv = [PvInit EXCEPT !.loading[2] = FALSE]
    /\ player = [o \in Mon |-> PlayerInit]
    /\ lst \in IF cfg.preview = "Listen"
               THEN {[LstOff EXCEPT !.pending = TRUE, !.sacn = TRUE], LstOff}
               ELSE {LstOff}
    /\ burst = BurstIdle
    /\ ev = EvNone
    /\ app = AppIdle
    /\ rs = RsIdle
    /\ tw = TwIdle

\* input paths of the Preview section and the update effect
Next ==
    \/ \E o \in Mon : FilesLoaded(o)
    \/ \E o \in Mon, sig \in Signals, value \in TestStrings : TestInput(o, sig, value)
    \/ \E o \in Mon, sig \in Signals : \E v \in SignalVals(sig) : TestSlider(o, sig, v)
    \/ \E o \in Mon, b \in BOOLEAN : SetOutput(o, b)
    \/ \E m \in {"Test", "Listen"}, started \in BOOLEAN : SetPreviewMode(m, started)
    \/ ListenRegistered
    \/ \E ch \in BurstChans, fr \in Frames : SourceChange(ch, fr)
    \/ \E k \in 1..MaxBatch : Deliver(k)

Spec == Init /\ [][Next]_vars

\* the same with the preview player playing
NextPlayer ==
    \/ \E o \in Mon : FilesLoaded(o)
    \/ \E o \in Mon, sig \in Signals, value \in TestStrings : TestInput(o, sig, value)
    \/ \E o \in Mon, sig \in Signals : \E v \in SignalVals(sig) : TestSlider(o, sig, v)
    \/ \E m \in {"Test", "Listen"}, started \in BOOLEAN : SetPreviewMode(m, started)
    \/ ListenRegistered
    \/ \E ch \in BurstChans, fr \in Frames : SourceChange(ch, fr)
    \/ \E k \in 1..MaxBatch : Deliver(k)
    \/ \E o \in Mon : Tick(o)
    \/ \E o \in Mon : VideoEnded(o)

SpecPlayer == Init /\ [][NextPlayer]_vars

\* the resolver bench
InitResolve ==
    /\ RsInit
    /\ cfg \in {c \in Configs : c.preview = "Test"}
    /\ dir = [o \in Mon |-> MainDir]
    /\ pv = PvInit
    /\ player = [o \in Mon |-> PlayerInit]
    /\ lst = LstOff
    /\ burst = BurstIdle
    /\ ev = EvNone
    /\ app = AppIdle
    /\ tw = TwIdle

NextResolve ==
    \/ RsList /\ UNCHANGED <<cfg, dir, pv, player, lst, burst, ev, tw, app>>
    \/ RsResolve /\ UNCHANGED <<cfg, dir, pv, player, lst, burst, ev, tw, app>>

SpecResolve == InitResolve /\ [][NextResolve]_vars

\* the twin bench
EquivStarts == Starts \cup {[o \in Mon |-> o]}

InitEquiv ==
    /\ cfg \in {[preview |-> "Test", enabled |-> e, start |-> s] :
                  e \in {[o \in Mon |-> TRUE], [o \in Mon |-> o = 1]},
                  s \in EquivStarts}
    /\ tw \in {[TwIdle EXCEPT !.on = TRUE, !.drv = o,
                              !.test = PvReady(l), !.listen = PvReady(l)] :
                 o \in {q \in Mon : cfg.enabled[q]}, l \in BOOLEAN}
    /\ dir = [o \in Mon |-> MainDir]
    /\ pv = PvInit
    /\ player = [o \in Mon |-> PlayerInit]
    /\ lst = LstOff
    /\ burst = BurstIdle
    /\ ev = EvNone
    /\ app = AppIdle
    /\ rs = RsIdle

NextEquiv ==
    \/ \E sig \in Signals : \E v \in SignalVals(sig) : TwInput(sig, v)
    \/ \E sig \in Signals : \E v \in SignalVals(sig) : TwSlider(sig, v)

SpecEquiv == InitEquiv /\ [][NextEquiv]_vars

\* production, with the Preview section not shown
ProdFrames ==
    {[video |-> 1, dimmer |-> 128, mode |-> 128],
     [video |-> CloseValue, dimmer |-> 255, mode |-> 0],
     [video |-> 0, dimmer |-> 0, mode |-> 0]}

ProdConfigs ==
    {[preview |-> "Test", enabled |-> e, start |-> s] :
        e \in {[o \in Mon |-> TRUE], [o \in Mon |-> o = 1]}, s \in Starts}

\* production running: started without error, values reset, both listings being
\* loaded, the listener effect waiting for listen() or start_sacn_listener failed
AppStarted(c, listening) ==
    [AppIdle EXCEPT !.active  = TRUE,
                    !.pending = listening,
                    !.loading = [o \in Mon |-> o = 1],
                    !.files   = [o \in Mon |-> IF o = 1 THEN <<>> ELSE get_media_files(MainDir)],
                    !.win     = [o \in Mon |-> IF c.enabled[o] THEN "open" ELSE "none"]]

InitProd ==
    /\ cfg \in ProdConfigs
    /\ dir = [o \in Mon |-> MainDir]
    /\ pv = PvInit
    /\ player = [o \in Mon |-> PlayerInit]
    /\ \E listening \in BOOLEAN :
          /\ lst = [LstOff EXCEPT !.sacn = listening]
          /\ app = AppStarted(cfg, listening)
    /\ burst = BurstIdle
    /\ ev = EvNone
    /\ rs = RsIdle
    /\ tw = TwIdle

NextProd ==
    \/ ProdListenRegistered
    \/ StopProduction
    \/ \E i \in 1..MaxProcs, ok \in BOOLEAN, started \in BOOLEAN : ProcStep(i, ok, started)
    \/ \E o \in Mon : ProdFilesLoaded(o)
    \/ \E ch \in BurstChans, fr \in ProdFrames : SourceChange(ch, fr)
    \/ \E k \in 1..MaxBatch : Deliver(k)

SpecProd == InitProd /\ [][NextProd]_vars

\* Start and Stop Production with no DMX source
InitStart ==
    /\ cfg \in ProdConfigs
    /\ dir = [o \in Mon |-> MainDir]
    /\ pv = PvInit
    /\ player = [o \in Mon |-> PlayerInit]
    /\ lst = LstOff
    /\ burst = BurstIdle
    /\ ev = EvNone
    /\ app = AppIdle
    /\ rs = RsIdle
    /\ tw = TwIdle

NextStart ==
    \/ \E started \in BOOLEAN : StartProduction(started)
    \/ \E i \in 1..MaxProcs, ok \in BOOLEAN, started \in BOOLEAN : ProcStep(i, ok, started)
    \/ ProdReset
    \/ ProdListenRegistered
    \/ StopProduction

SpecStart == InitStart /\ [][NextStart]_vars

\* production running while the Preview section is shown in Listen mode with
\* Output to Display checked for monitor 1; monitor 2 configured and disabled
SharedConfigs ==
    {[preview |-> "Listen", enabled |-> [o \in Mon |-> o = 1], start |-> s] : s \in Starts}

InitShared ==
    /\ cfg \in SharedConfigs
    /\ dir = [o \in Mon |-> IF o = 1 THEN MainDir ELSE <<>>]
    /\ pv = [PvInit EXCEPT !.loading = [o \in Mon |-> FALSE],
                           !.files = [o \in Mon |-> get_media_files(dir[o])],
                           !.out = [o \in Mon |-> o = 1]]
    /\ player = [o \in Mon |-> PlayerInit]
    /\ lst = [LstOff EXCEPT !.pending = TRUE, !.sacn = TRUE]
    /\ app = [AppStarted(cfg, TRUE) EXCEPT
                 !.loading = [o \in Mon |-> FALSE],
                 !.files = [o \in Mon |-> get_media_files(MainDir)]]
    /\ burst = BurstIdle
    /\ ev = EvNone
    /\ rs = RsIdle
    /\ tw = TwIdle

NextShared ==
    \/ ListenRegistered
    \/ ProdListenRegistered
    \/ \E ch \in BurstChans, fr \in Frames : SourceChange(ch, fr)
    \/ \E k \in 1..MaxBatch : Deliver(k)
    \/ \E f1 \in PanelFrames, f2 \in PanelFrames : PanelSend(f1, f2)

SpecShared == InitShared /\ [][NextShared]_vars

\* both outputs enabled, in three situations: Test-mode inputs with the Link box
\* while production runs without listener; Listen-mode frames while production runs
\* with its handler registered; Start Production with window commands that may fail,
\* the Preview section in Listen mode without listener
SiblingVals == {1, 128}

SiblingFrames ==
    {[video |-> 1, dimmer |-> 128, mode |-> 128],
     [video |-> 2, dimmer |-> 255, mode |-> 0]}

SiblingConfigs ==
    {[preview |-> p, enabled |-> [o \in Mon |-> TRUE], start |-> s] :
        p \in {"Test", "Listen"}, s \in Starts}

\* production running, its values reset and its listings loaded
AppRunning(c, listening) ==
    [AppStarted(c, FALSE) EXCEPT
        !.handler = listening,
        !.loading = [o \in Mon |-> FALSE],
        !.files   = [o \in Mon |-> get_media_files(MainDir)]]

InitSibling ==
    /\ cfg \in SiblingConfigs
    /\ dir = [o \in Mon |-> IF o = 1 THEN MainDir ELSE <<>>]
    /\ pv = [PvInit EXCEPT !.loading[2] = FALSE]
    /\ player = [o \in Mon |-> PlayerInit]
    /\ \/ /\ cfg.preview = "Test"
          /\ lst = LstOff
          /\ app = AppRunning(cfg, FALSE)
       \/ /\ cfg.preview = "Listen"
          /\ lst = [LstOff EXCEPT !.handler = TRUE, !.sacn = TRUE]
          /\ app = AppRunning(cfg, TRUE)
       \/ /\ cfg.preview = "Listen"
          /\ lst = LstOff
          /\ app = AppIdle
    /\ burst = BurstIdle
    /\ ev = EvNone
    /\ rs = RsIdle
    /\ tw = TwIdle

NextSibling ==
    \/ ToggleLink
    \/ \E o \in Mon, sig \in Signals, v \in SiblingVals : TestSlider(o, sig, v)
    \/ \E ch \in BurstChans, fr \in SiblingFrames : SourceChange(ch, fr)
    \/ \E k \in 1..MaxBatch : Deliver(k)
    \/ \E started \in BOOLEAN : StartProduction(started)
    \/ \E i \in 1..MaxProcs, ok \in BOOLEAN, started \in BOOLEAN : ProcStep(i, ok, started)

SpecSibling == InitSibling /\ [][NextSibling]_vars

\* the media listings of App and of the Preview section, with folders that change
\* and listings that fail
InitCatalog ==
    /\ cfg \in Configs
    /\ dir = [o \in Mon |-> MainDir]
    /\ pv = PvInit
    /\ player = [o \in Mon |-> PlayerInit]
    /\ lst = LstOff
    /\ burst = BurstIdle
    /\ ev = EvNone
    /\ app = AppIdle
    /\ rs = RsIdle
    /\ tw = TwIdle

NextCatalog ==
    \/ \E o \in Mon : ProdFilesLoaded(o)
    \/ \E o \in Mon : ProdFilesFailed(o)
    \/ \E o \in Mon : FilesLoaded(o)
    \/ \E o \in Mon : FilesFailed(o)
    \/ \E o \in Mon, d \in {MainDir, OtherDir} : FolderChange(o, d)

SpecCatalog == InitCatalog /\ [][NextCatalog]_vars

\* the Configuration section shown, the operator editing the start channels
InitConfig ==
    /\ cfg \in Configs
    /\ dir = [o \in Mon |-> MainDir]
    /\ pv = PvInit
    /\ player = [o \in Mon |-> PlayerInit]
    /\ lst = LstOff
    /\ burst = BurstIdle
    /\ ev = EvNone
    /\ app = AppIdle
    /\ rs = RsIdle
    /\ tw = TwIdle

NextConfig ==
    \E o \in Mon, text \in StartTexts, ok \in BOOLEAN : SetStartChannel(o, text, ok)

SpecConfig == InitConfig /\ [][NextConfig]_vars

\* production running while the operator also switches the Preview section
\* between Listen and Test
NextSections ==
    \/ ListenRegistered
    \/ ProdListenRegistered
    \/ \E m \in {"Test", "Listen"}, started \in BOOLEAN : SetPreviewMode(m, started)
    \/ \E ch \in BurstChans, fr \in SiblingFrames : SourceChange(ch, fr)
    \/ \E k \in 1..MaxBatch : Deliver(k)

SpecSections == InitShared /\ [][NextSections]_vars

\* the Preview section in Test mode with its listings loaded and its output
\* windows, production running without listener or not running
WindowVals == {0, 1}

InitWindow ==
    /\ cfg \in ProdConfigs
    /\ dir = [o \in Mon |-> MainDir]
    /\ pv = [PvReady(FALSE) EXCEPT !.out = [o \in Mon |-> FALSE]]
    /\ player = [o \in Mon |-> PlayerInit]
    /\ lst = LstOff
    /\ burst = BurstIdle
    /\ ev = EvNone
    /\ app \in {AppRunning(cfg, FALSE),
                [AppIdle EXCEPT !.win = [o \in Mon |-> IF cfg.enabled[o] THEN "closed"
                                                       ELSE "none"]]}
    /\ rs = RsIdle
    /\ tw = TwIdle

NextWindow ==
    \/ \E o \in Mon, b \in BOOLEAN : ToggleOutput(o, b)
    \/ \E o \in Mon, v \in WindowVals : TestSlider(o, "video", v)
    \/ \E i \in 1..MaxProcs, ok \in BOOLEAN, started \in BOOLEAN : ProcStep(i, ok, started)

SpecWindow == InitWindow /\ [][NextWindow]_vars

\* Start Production after an earlier session: production stopped, both windows
\* closed, the production values as the earlier session left them
LeftOver ==
    {[video |-> 0, dimmer |-> FullScale, mode |-> 0],
     [video |-> 1, dimmer |-> 128, mode |-> 128],
     [video |-> CloseValue, dimmer |-> 255, mode |-> 0]}

InitRestart ==
    /\ cfg \in ProdConfigs
    /\ dir = [o \in Mon |-> MainDir]
    /\ pv = PvInit
    /\ player = [o \in Mon |-> PlayerInit]
    /\ lst = LstOff
    /\ burst = BurstIdle
    /\ ev = EvNone
    /\ \E f \in LeftOver :
          app = [AppIdle EXCEPT
                   !.video   = [o \in Mon |-> IF cfg.enabled[o] THEN f.video ELSE Baseline.video],
                   !.dimmer  = [o \in Mon |-> IF cfg.enabled[o] THEN f.dimmer ELSE Baseline.dimmer],
                   !.mode    = [o \in Mon |-> IF cfg.enabled[o] THEN f.mode ELSE Baseline.mode],
                   !.files   = [o \in Mon |-> get_media_files(MainDir)],
                   !.loading = [o \in Mon |-> FALSE],
                   !.win     = [o \in Mon |-> "closed"]]
    /\ rs = RsIdle
    /\ tw = TwIdle

SpecRestart == InitRestart /\ [][NextStart]_vars

\* the operator's input paths of the Preview section: the Test-mode number inputs
\* and, in Listen mode, the test panel with typed Clip values
InitPanel ==
    /\ cfg \in Configs
    /\ dir = [o \in Mon |-> IF o = 1 THEN MainDir ELSE <<>>]
    /\ pv = [PvInit EXCEPT !.loading[2] = FALSE]
    /\ player = [o \in Mon |-> PlayerInit]
    /\ lst = IF cfg.preview = "Listen"
             THEN [LstOff EXCEPT !.handler = TRUE, !.sacn = TRUE] ELSE LstOff
    /\ burst = BurstIdle
    /\ ev = EvNone
    /\ app = AppIdle
    /\ rs = RsIdle
    /\ tw = TwIdle

NextPanel ==
    \/ \E o \in Mon, sig \in Signals, value \in TestStrings : TestInput(o, sig, value)
    \/ \E t1 \in PanelTexts, t2 \in PanelTexts : PanelSend(PanelTyped(t1), PanelTyped(t2))
    \/ \E k \in 1..MaxBatch : Deliver(k)

SpecPanel == InitPanel /\ [][NextPanel]_vars

----------------------------------------------------------------------------
(* Properties of media resolution, under SpecResolve.                       *)
Range(s) == {s[i] : i \in DOMAIN s}

Padded(v) == PadStart(NumToString(v), 3, "0")

RsDone == rs.pc = "done"

\* C4: a select value of 0 resolves to no media in both resolvers, whatever the
\* folder holds.
C4_SelectZeroIsNone ==
    (RsDone /\ rs.sel = 0) => (rs.prod = Null /\ rs.prev = Null)

\* C5: for a select value in 1..255, when exactly one file of the folder begins
\* with the 3-digit zero-padded value both resolvers return that file, and when no
\* file does both return none.
C5_UniquePrefixResolves ==
    (RsDone /\ rs.sel \in 1..FullScale) =>
        LET hits == {f \in Range(rs.dir) : StartsWith(f, Padded(rs.sel))}
        IN  /\ hits = {} => (rs.prod = Null /\ rs.prev = Null)
            /\ Cardinality(hits) = 1 => (\A f \in hits : rs.prod = f /\ rs.prev = f)

\* C6: a file named by the README scheme, the 3-digit value directly followed by
\* the extension (001.mp4 ... 255.mp4), is the media resolved for that value.
C6_BareNumberNameResolves ==
    (RsDone /\ rs.sel \in 1..FullScale) =>
        \A f \in Range(rs.dir) :
            (f = Padded(rs.sel) \o <<".", "m", "p", "4">>
             /\ \A g \in Range(rs.dir) : StartsWith(g, Padded(rs.sel)) => g = f)
            => (rs.prod = f /\ rs.prev = f)

\* the files of the folder that the resolvers accept for the select value
RsMatches == {f \in Range(rs.dir) : StartsWith(f, Padded(rs.sel) \o <<"_">>)}

----------------------------------------------------------------------------
(* Properties of the Test and Listen input paths, under SpecEquiv and Spec. *)

\* C3: the same select, dimmer and mode values driven for an output through the
\* manual Test controls and through live DMX events leave the same channel state
\* and the same last update_output_window call for that output.
C3_TestListenSameDecision ==
    tw.on => /\ Triple(tw.test, tw.drv) = Triple(tw.listen, tw.drv)
             /\ tw.tc[tw.drv] = tw.lc[tw.drv]

\* both paths have issued an update with media, a dimmed level and a non-zero mode
C3_Witness ==
    /\ tw.on
    /\ tw.tc[tw.drv].mediaUrl # Null /\ tw.lc[tw.drv].mediaUrl # Null
    /\ tw.tc[tw.drv].dimmer = 128 /\ tw.lc[tw.drv].dimmer = 128
    /\ tw.tc[tw.drv].playtype = 127 /\ tw.lc[tw.drv].playtype = 127

\* a console frame for output o is in flight, none of its events handled yet, and
\* its select, dimmer and mode all differ from the values in force
FreshFrame(o) ==
    /\ cfg.preview = "Listen" /\ cfg.enabled[o] /\ pv.out[o] /\ lst.handler
    /\ Len(burst) = 3
    /\ burst[1].channel = cfg.start[o]
    /\ burst[1].value # pv.video[o]
    /\ burst[2].value # pv.dimmer[o]
    /\ burst[3].value # pv.mode[o]

\* C1: when the select, dimmer and mode of one frame arrive as separate events, no
\* update is issued for the output while part of the frame is still unhandled: the
\* only update is the combined one, and none pairs a new value with an old one.
C1_OneCombinedUpdate ==
    [][\A o \in Mon :
         (FreshFrame(o) /\ burst' # burst /\ burst' # <<>>)
            => ~UpdateFires(pv, cfg, pv', cfg', o)]_vars

\* C2: a switch of the preview from Test to Listen leaves every output's select,
\* dimmer and mode at the Listen baseline (0, 255, 0).
C2_ListenStartsAtBaseline ==
    [][(cfg.preview = "Test" /\ cfg'.preview = "Listen")
          => \A o \in Mon : Triple(pv', o) = Baseline]_vars

----------------------------------------------------------------------------
(* Properties of the preview player, under SpecPlayer.                      *)

\* a render in which, of output o's inputs, only the dimmer has changed
DimmerOnly(o) ==
    /\ cfg' = cfg
    /\ pv'.dimmer[o] # pv.dimmer[o]
    /\ pv'.video = pv.video /\ pv'.mode = pv.mode /\ pv'.files = pv.files

\* C8: when only the dimmer changes, the media stays as it is (no reload, no
\* restart, same position) and is shown at opacity dimmer/255; the update carries
\* the same media with the new dimmer.
C8_DimmerOnlyKeepsPlayback ==
    [][\A o \in Mon :
         DimmerOnly(o) =>
            /\ player'[o] = player[o]
            /\ Opacity(pv', o) = <<pv'.dimmer[o], 255>>
            /\ UpdateArgs(pv', o).mediaUrl = UpdateArgs(pv, o).mediaUrl
            /\ UpdateArgs(pv', o).dimmer = pv'.dimmer[o]]_vars

\* the last render changed only the dimmer of monitor 1 while its video was part
\* way through, and the video is still playing from there
C8_Witness ==
    /\ ev[1] = {"dimmer"}
    /\ pv.dimmer[1] = 128
    /\ player[1].init /\ ~player[1].paused
    /\ player[1].cur = convertFileSrc(Folder(1), F001a)
    /\ player[1].pos = MaxPos - 1

\* C9: when the select value changes to one that resolves to a different video,
\* the new file is loaded from its start, playing, with the latest dimmer and the
\* latest mode in force; when the resolved file is unchanged nothing is reloaded.
C9_HardCutWithLatestValues ==
    [][\A o \in Mon :
         /\ (cfg.enabled[o] /\ cfg' = cfg /\ pv'.video[o] # pv.video[o]
             /\ MonitorFile(pv', o) # MonitorFile(pv, o)
             /\ isVideo(MonitorFile(pv', o)))
            => /\ player'[o].cur = convertFileSrc(Folder(o), MonitorFile(pv', o))
               /\ player'[o].pos = 0 /\ ~player'[o].paused
               /\ Opacity(pv', o) = <<pv'.dimmer[o], FullScale>>
               /\ (player'[o].endMode < LoopBelow) = (pv'.mode[o] < LoopBelow)
         /\ (pv' # pv /\ MonitorFile(pv', o) = MonitorFile(pv, o))
            => (player'[o].cur = player[o].cur /\ player'[o].pos = player[o].pos)]_vars

\* C10: when a video reaches its end, the mode in force at that moment decides:
\* 0..127 restarts the video from its start, 128..255 holds it on its last frame.
C10_ModeAtEndDecides ==
    [][\A o \in Mon :
         VideoEnded(o) =>
            IF pv.mode[o] < LoopBelow
            THEN player'[o].pos = 0 /\ ~player'[o].paused
            ELSE player'[o].pos = MaxPos /\ player'[o].paused]_vars

\* a render in which, of output o's inputs, only the mode has changed
ModeOnly(o) ==
    /\ cfg' = cfg
    /\ pv'.mode[o] # pv.mode[o]
    /\ pv'.video = pv.video /\ pv'.dimmer = pv.dimmer /\ pv'.files = pv.files

\* C11: when only the mode changes, the playing media is neither reloaded nor
\* restarted: the loaded source, the playback position and the paused state are
\* left as they are.
C11_ModeOnlyKeepsPlayback ==
    [][\A o \in Mon :
         ModeOnly(o) =>
            /\ player'[o].cur = player[o].cur
            /\ player'[o].pos = player[o].pos
            /\ player'[o].paused = player[o].paused]_vars

\* the last render changed only the mode of monitor 1, to "hold", while its video
\* was part way through, and the video is still playing from there
C11_Witness ==
    /\ ev[1] = {"mode"}
    /\ pv.mode[1] = 128
    /\ player[1].init /\ ~player[1].paused
    /\ player[1].cur = convertFileSrc(Folder(1), F001a)
    /\ player[1].pos = MaxPos - 1

\* C12: the play type is read as 0 = stop (nothing plays), 1 = play once (the video
\* holds at its end), 2 = loop (the video restarts at its end).
C12_PlayTypeScheme ==
    [][\A o \in Mon :
         /\ (pv'.mode[o] = 0 /\ pv'.video[o] > 0) => player'[o].paused
         /\ (VideoEnded(o) /\ player[o].endMode = 1)
               => (player'[o].pos = MaxPos /\ player'[o].paused)
         /\ (VideoEnded(o) /\ player[o].endMode = 2)
               => (player'[o].pos = 0 /\ ~player'[o].paused)]_vars

----------------------------------------------------------------------------
(* Properties of production, under SpecProd.                                *)

\* production is running for output o before and after the step
ProdRuns(o) == app.active /\ app'.active /\ cfg.enabled[o]

C19_StoppedIsQuiet ==
    /\ [](~app.active => /\ ~lst.sacn
                         /\ app.procs = <<>> => \A o \in Mon : app.win[o] = "closed")
    /\ [][~app'.active => \A o \in Mon : /\ ~ProdUpdateFires(app, app', cfg, o)
                                         /\ ~ProdCloseFires(app, app', o)]_vars

\* production was stopped while listen() had not resolved; the handler registered
\* afterwards has received the frame (255, 255, 0) for monitor 1 that was in flight,
\* stopProduction has finished and both windows are closed
C19_Witness ==
    /\ ~app.active /\ app.leaked
    /\ app.procs = <<>>
    /\ app.video[1] = CloseValue
    /\ burst = <<>>
    /\ \A o \in Mon : app.win[o] = "closed"

\* C20: a nonzero select without a matching file is re-evaluated on a select change
\* and on a refresh of the file list: in the render in which the resolution of a
\* running output's select turns from no file into a file, update_output_window
\* is sent for that output
C20_MissReevaluated ==
    [][\A o \in Mon :
         (/\ ProdRuns(o)
          /\ app'.video[o] \notin {0, CloseValue}
          /\ ProdArgs(app, o).mediaUrl = Null
          /\ ProdArgs(app', o).mediaUrl # Null)
         => ProdUpdateFires(app, app', cfg, o)]_vars

\* C26: in production, whenever the select of an enabled monitor is not 255 and
\* no window command is outstanding, the last window command for that monitor is
\* an open: a window closed by select 255 is opened again when the select changes
C26_WindowOpenUnless255 ==
    \A o \in Mon :
       (/\ app.active /\ ~app.reset /\ cfg.enabled[o]
        /\ app.procs = <<>>
        /\ app.video[o] # CloseValue)
       => app.win[o] = "open"

\* C29: after a production session has ended no dmx-update handler registered by
\* it is subscribed, also when it ended before listen() had resolved
C29_NoHandlerAfterSession ==
    ~app.active => ~(app.handler \/ app.leaked)

----------------------------------------------------------------------------
(* Properties of Start and Stop Production, under SpecStart.                *)

\* the i-th suspended function resumes and invokes open_output_window for output o
ResumesWithOpen(i, o) ==
    /\ i \in DOMAIN app.procs
    /\ app.procs[i].todo # <<>>
    /\ Head(app.procs[i].todo) = <<"open", o>>
    /\ \E ok \in BOOLEAN, started \in BOOLEAN : ProcStep(i, ok, started)

\* C14: under every interleaving of the asynchronous open/close sequences, an
\* open_output_window for an output id directly follows a close_output_window for
\* that id, with no other open in between.
C14_OpenFollowsClose ==
    [][\A i \in 1..MaxProcs, o \in Mon :
         ResumesWithOpen(i, o) => app.win[o] = "closed"]_vars

----------------------------------------------------------------------------
(* Properties of production and the Listen view together, under SpecShared. *)

\* event u is on none of the three channels of an enabled output
Unaddressed(u) ==
    \A o \in Mon : cfg.enabled[o] => u.channel \notin cfg.start[o]..(cfg.start[o] + 2)

\* the step commands no window: neither view sends update_output_window and the
\* production close effect stays quiet
NoWindowCommand ==
    \A o \in Mon : /\ ~UpdateFires(pv, cfg, pv', cfg', o)
                   /\ ~ProdUpdateFires(app, app', cfg, o)
                   /\ ~ProdCloseFires(app, app', o)

C16_SingleSource ==
    [][/\ (\E o \in Mon : Triple(pv', o) # Triple(pv, o)) => \E k \in 1..MaxBatch : Deliver(k)
       /\ \A o \in Mon :
             UpdateFires(pv, cfg, pv', cfg', o)
             => ~(ProdUpdateFires(app, app', cfg, o) \/ ProdCloseFires(app, app', o))]_vars

----------------------------------------------------------------------------
(* Properties of the two outputs side by side, under SpecSibling.           *)

\* the three channels of output o
Group(o) == cfg.start[o]..(cfg.start[o] + 2)

\* a batch of events, all on the channels of output o, is delivered
DeliversTo(o) ==
    \E k \in 1..MaxBatch : Deliver(k) /\ \A j \in 1..k : burst[j].channel \in Group(o)

\* the open_output_window the i-th suspended function awaits for output o fails
OpenFails(i, o) ==
    /\ i \in DOMAIN app.procs
    /\ app.procs[i].wait = <<"open", o>>
    /\ \E started \in BOOLEAN : ProcStep(i, FALSE, started)

\* after a failed open for output o the function goes on: to close_output_window of
\* monitor 2 after monitor 1, to setProductionActive(true) after monitor 2
GoesOn(o) ==
    IF o = 1
    THEN /\ Len(app'.procs) = Len(app.procs)
         /\ app'.procs[Len(app'.procs)].wait = <<"close", 2>>
         /\ app'.win[2] = "closed"
    ELSE app'.active

\* C17 as stated: an update or operator input addressed to one output never
\* changes the other output's (select, dimmer, mode), and a failed open for one
\* output does not keep startProduction from going on to the other
C17_SiblingUntouched ==
    [][\A o \in Mon :
         /\ (\E sig \in Signals, v \in SiblingVals : TestSlider(o, sig, v))
            => Triple(pv', Other(o)) = Triple(pv, Other(o))
         /\ DeliversTo(o) => /\ Triple(pv', Other(o)) = Triple(pv, Other(o))
                             /\ Triple(app', Other(o)) = Triple(app, Other(o))
         /\ \A i \in 1..MaxProcs : OpenFails(i, o) => GoesOn(o)]_vars

\* C17 amended: a Test-mode input to one output changes of the other output only
\* the select, and only while Link is checked, when it is copied; dimmer and mode
\* inputs and dmx-update events on one output's channels leave the other output's
\* triple as it is; a failed open for one output does not keep startProduction
\* from going on to the other
C17_SiblingOnlyLinked ==
    [][\A o \in Mon :
         /\ \A sig \in Signals, v \in SiblingVals :
              TestSlider(o, sig, v)
              => Triple(pv', Other(o)) =
                   IF sig = "video" /\ pv.linked
                   THEN [Triple(pv, Other(o)) EXCEPT !.video = v]
                   ELSE Triple(pv, Other(o))
         /\ DeliversTo(o) => /\ Triple(pv', Other(o)) = Triple(pv, Other(o))
                             /\ Triple(app', Other(o)) = Triple(app, Other(o))
         /\ \A i \in 1..MaxProcs : OpenFails(i, o) => GoesOn(o)]_vars

\* Link checked, select 128 given to one output and copied to the other, the
\* dimmers and modes of the two outputs apart
C17_Witness ==
    /\ pv.linked
    /\ pv.video[1] = 128 /\ pv.video[2] = 128
    /\ pv.dimmer[1] = 1 /\ pv.dimmer[2] = FullScale
    /\ pv.mode[1] = 0 /\ pv.mode[2] = 128

----------------------------------------------------------------------------
(* Properties of the media listings, under SpecCatalog.                     *)

\* C21: once the listing of an output's folder has been answered, with files or
\* with an error, the output's catalog holds files of that folder only (none after
\* an error), in production and in the Preview section: files of a folder listed
\* before are never used against the new folder
C21_CatalogOfCurrentFolder ==
    \A o \in Mon :
       /\ ~app.loading[o] => Range(app.files[o]) \subseteq Range(dir[o])
       /\ ~pv.loading[o] => Range(pv.files[o]) \subseteq Range(dir[o])

----------------------------------------------------------------------------
(* Properties of the configuration, under SpecConfig.                       *)

\* C22: in every configuration the three channels of each output lie in the
\* universe: 1 <= start_channel and start_channel + 2 <= 512
C22_GroupFitsUniverse ==
    \A o \in Mon : cfg.start[o] >= 1 /\ cfg.start[o] + Offset("mode") <= UniverseSize

----------------------------------------------------------------------------
(* Properties of production beside the other sections, under SpecSections.  *)

\* C23: while production is active the backend sACN listener stays started: no
\* step that leaves production active stops it
C23_ListenerKeptForProduction ==
    [][(app.active /\ app'.active /\ lst.sacn) => lst'.sacn]_vars

----------------------------------------------------------------------------
(* Properties of the output windows of the Preview section, under           *)
(* SpecWindow.                                                              *)

\* C24: while production is active the window of an enabled monitor gets no close
\* or open command from the Preview section: a step that leaves production active
\* and its selects as they are leaves the last window command as it is
C24_ProductionWindowKept ==
    [][\A o \in Mon :
         (ProdRuns(o) /\ ~ProdCloseFires(app, app', o)) => app'.win[o] = app.win[o]]_vars

\* the open_output_window that the i-th suspended function, started by the output
\* window effect of the Preview section, awaits for output o is answered without error
PreviewOpened(i, o) ==
    /\ i \in DOMAIN app.procs
    /\ app.procs[i].src = "preview"
    /\ app.procs[i].wait = <<"open", o>>
    /\ \E started \in BOOLEAN : ProcStep(i, TRUE, started)

\* C27: when Output to Display is enabled for a monitor whose select resolves to a
\* file, update_output_window with the current media is issued once the window
\* has been opened, without a further value change
C27_OpenedWindowGetsMedia ==
    [][\A i \in 1..MaxProcs, o \in Mon :
         (PreviewOpened(i, o) /\ pv.out[o] /\ pv.video[o] > 0 /\ MonitorFile(pv, o) # Null)
         => UpdateFires(pv, cfg, pv', cfg', o)]_vars

\* C28: once every asynchronous close/open call has completed (and production is
\* not running), the last window command of each enabled monitor matches Output to
\* Display: an open (answered or failed) when it is on, no open when it is off
C28_WindowMatchesLastRequest ==
    (app.procs = <<>> /\ ~app.active)
    => \A o \in Mon :
          cfg.enabled[o] => (pv.out[o] <=> app.win[o] \in {"open", "failed"})

----------------------------------------------------------------------------
(* Properties of a further production session, under SpecRestart.           *)

\* C25: each time production is started every output begins from the baseline:
\* an update_output_window sent by the production effects while the values are
\* not yet reset carries no media, and no such render invokes close_output_window
C25_StartsFromBaseline ==
    [][\A o \in Mon :
         app'.reset => /\ ProdUpdateFires(app, app', cfg, o)
                            => ProdArgs(app', o).mediaUrl = Null
                       /\ ~ProdCloseFires(app, app', o)]_vars

----------------------------------------------------------------------------
(* Properties of the operator's inputs, under SpecPanel.                    *)

====
